---- MODULE Spec2Model ----
(***************************************************************************)
(* Network-topology analysis of the TOPS web application: island           *)
(* detection, generator-to-island mapping and per-island frequency, as     *)
(* implemented in App.js / ResultsSection.js (detectIslands,               *)
(* mapGeneratorsToIslands, calculateIslandFrequencies) and driven by the   *)
(* line-outage handlers of the parameter panel; and the flow direction of  *)
(* a branch (getLineFlowDirectionSimple) in its two copies of App.js.      *)
(*                                                                         *)
(* Conventions.  A node id such as 'B10' is the pair <<"B", 10>> (its      *)
(* leading letter and its number); JavaScript arrays are sequences, and    *)
(* JavaScript indices (0-based) are kept 0-based wherever the code stores  *)
(* them (island indices, generator keys).  A JavaScript Set is the         *)
(* sequence of its members in insertion order.  Numbers that the code      *)
(* divides are exact rationals <<numerator, denominator>>; NaN is <<0,0>>. *)
(***************************************************************************)
EXTENDS Integers, Sequences, FiniteSets, TLC

\* ------------------------------------------------------------------ bounds
\* longest list of outage entries the operator builds in the panel
MaxOutages == 1

\* largest injection of a bus-power sample, in steps of 50 MW
MaxP == 2

\* times a streamed step can carry: 1 .. MaxTime
MaxTime == 3

\* ---------------------------------------------------------- JavaScript values
undefined == "undefined"
NaN == <<0, 0>>

Range(s) == {s[k] : k \in DOMAIN s}

\* Set.prototype.add on an insertion-ordered set
SetAdd(s, x) == IF x \in Range(s) THEN s ELSE Append(s, x)

\* ------------------------------------------------------------ network data
Bus(n) == [id |-> <<"B", n>>, type |-> undefined]
Gen(n) == [id |-> <<"G", n>>, type |-> "generator"]
Load(n) == [id |-> <<"L", n>>, type |-> "load"]
Shunt(n) == [id |-> <<"C", n>>, type |-> "shunt"]
Trafo(n) == [id |-> <<"T", n>>, type |-> "transformer"]

Link(s, t, ty, i) == [source |-> s, target |-> t, type |-> ty, id |-> i]

\* the K2a network of the application
initialNetworkData ==
  [nodes |-> << Bus(1), Bus(2), Bus(3), Bus(4),
                Bus(5), Bus(6), Bus(7), Bus(8), Bus(9), Bus(10), Bus(11),
                Gen(1), Gen(2), Gen(3), Gen(4),
                Load(1), Load(2),
                Shunt(1), Shunt(2),
                Trafo(1), Trafo(2), Trafo(3), Trafo(4) >>,
   links |-> <<
     Link(<<"G",1>>, <<"B",1>>, "generator_connection", undefined),
     Link(<<"G",2>>, <<"B",2>>, "generator_connection", undefined),
     Link(<<"G",3>>, <<"B",3>>, "generator_connection", undefined),
     Link(<<"G",4>>, <<"B",4>>, "generator_connection", undefined),
     Link(<<"L",1>>, <<"B",7>>, "load_connection", undefined),
     Link(<<"L",2>>, <<"B",9>>, "load_connection", undefined),
     Link(<<"C",1>>, <<"B",7>>, "shunt_connection", undefined),
     Link(<<"C",2>>, <<"B",9>>, "shunt_connection", undefined),
     Link(<<"B",1>>, <<"T",1>>, "transformer", "T1-1"),
     Link(<<"T",1>>, <<"B",5>>, "transformer", "T1-2"),
     Link(<<"B",2>>, <<"T",2>>, "transformer", "T2-1"),
     Link(<<"T",2>>, <<"B",6>>, "transformer", "T2-2"),
     Link(<<"B",3>>, <<"T",3>>, "transformer", "T3-1"),
     Link(<<"T",3>>, <<"B",11>>, "transformer", "T3-2"),
     Link(<<"B",4>>, <<"T",4>>, "transformer", "T4-1"),
     Link(<<"T",4>>, <<"B",10>>, "transformer", "T4-2"),
     Link(<<"B",5>>, <<"B",6>>, "line", "L5-6"),
     Link(<<"B",6>>, <<"B",7>>, "line", "L6-7"),
     Link(<<"B",7>>, <<"B",8>>, "line", "L7-8-1"),
     Link(<<"B",7>>, <<"B",8>>, "line", "L7-8-2"),
     Link(<<"B",8>>, <<"B",9>>, "line", "L8-9-1"),
     Link(<<"B",8>>, <<"B",9>>, "line", "L8-9-2"),
     Link(<<"B",9>>, <<"B",10>>, "line", "L9-10"),
     Link(<<"B",10>>, <<"B",11>>, "line", "L10-11") >>]

\* the "Line to Disconnect" menu of the parameter panel
LineMenu ==
  {"", "L5-6", "L6-7", "L7-8-1", "L7-8-2", "L8-9-1", "L8-9-2", "L9-10", "L10-11"}

\* smaller networks of the same shape: three buses, one transformer node and
\* two generators, in a node order that is not the numeric one
smallNodes == << Bus(2), Trafo(1), Bus(1), Gen(1), Bus(3), Gen(2) >>

smallGenLinks ==
  << Link(<<"G",1>>, <<"B",1>>, "generator_connection", undefined),
     Link(<<"G",2>>, <<"B",3>>, "generator_connection", undefined) >>

\* candidate branches: a double line B1-B2, a line stored as (B3, B2), and a
\* transformer B2-T1-B3 that closes a cycle with it
smallBranches ==
  << Link(<<"B",1>>, <<"B",2>>, "line", "L1-2-1"),
     Link(<<"B",1>>, <<"B",2>>, "line", "L1-2-2"),
     Link(<<"B",3>>, <<"B",2>>, "line", "L3-2"),
     Link(<<"B",2>>, <<"T",1>>, "transformer", "T1-1"),
     Link(<<"T",1>>, <<"B",3>>, "transformer", "T1-2") >>

\* Array.prototype.filter in index form: the members of s at the positions in
\* keep, in their order in s
SelectAt(s, keep) ==
  CHOOSE r \in {[i \in 1..Cardinality(kk) |->
                  ss[CHOOSE k \in kk : Cardinality({j \in kk : j <= k}) = i]] :
                ss \in {s}, kk \in {keep}} : TRUE

smallNetwork(keep) ==
  [nodes |-> smallNodes,
   links |-> smallGenLinks \o SelectAt(smallBranches, keep)]

Networks ==
  {initialNetworkData} \cup {smallNetwork(keep) : keep \in SUBSET (1..Len(smallBranches))}

\* ids offered for an outage entry on a network: '' (nothing selected yet) or
\* one of the branch ids; for the K2a network, the entries of the panel's menu
OutageChoices(nd) ==
  IF nd = initialNetworkData THEN LineMenu
  ELSE {""} \cup {nd.links[k].id :
                    k \in {j \in DOMAIN nd.links :
                             nd.links[j].type \in {"line", "transformer"}}}

\* ---------------------------------------------------------- detectIslands
null == << >>

\* String.prototype.startsWith('B') on a node id
startsWithB(id) == id[1] = "B"

\* networkData.nodes.filter(node => node.id?.toString().startsWith('B'))
busNodes(nd) ==
  SelectAt(nd.nodes, {k \in DOMAIN nd.nodes : startsWithB(nd.nodes[k].id)})

\* lineOutage?.enabled && lineOutage?.outages &&
\*   lineOutage.outages.some(outage => outage.lineId === link.id)
isOutaged_ignoreOutages(lo, link) == FALSE

isOutaged(lo, link) ==
  /\ lo.enabled
  /\ \E k \in DOMAIN lo.outages : lo.outages[k].lineId = link.id

\* the other end of the link when it touches nodeId, null otherwise
nextNode_sourceOnly(link, nodeId) ==
  IF link.source = nodeId THEN link.target ELSE null

nextNode(link, nodeId) ==
  IF link.source = nodeId THEN link.target
  ELSE IF link.target = nodeId THEN link.source
  ELSE null

\* the links at which the callback of links.forEach does not return early at
\* nodeId: a line or transformer, not outaged, touching nodeId
linksAt(nd, lo, nodeId) ==
  {k \in DOMAIN nd.links :
     /\ nd.links[k].type \in {"line", "transformer"}
     /\ ~isOutaged(lo, nd.links[k])
     /\ nextNode(nd.links[k], nodeId) # null}

Min(S) == CHOOSE m \in S : \A j \in S : m <= j

\* busNodes.forEach: whether a new island is started at this bus
startsIsland_always(visited, node) == TRUE

startsIsland(visited, node) == node.id \notin visited

\* The recursion of dfs is run on an explicit call stack.  A run state m has
\* the closure's visited and islands, the currentIsland of the running
\* forEach turn, the position b of busNodes.forEach, and the stack of active
\* dfs calls, each with its nodeId and the links ks its forEach has not
\* reached yet.
\* dfs(nodeId, currentIsland) is entered: both sets get the node
dfsCall(nd, lo, m, nodeId, currentIsland) ==
  [m EXCEPT !.visited = @ \cup {nodeId},
            !.currentIsland = SetAdd(currentIsland, nodeId),
            !.stack = Append(@, [nodeId |-> nodeId, ks |-> linksAt(nd, lo, nodeId)])]

\* the innermost dfs call returns; when it was the outermost one, the turn of
\* busNodes.forEach pushes the island it collected
dfsReturn_unshift(m) ==
  LET rest == SubSeq(m.stack, 1, Len(m.stack) - 1)
  IN [m EXCEPT !.stack = rest,
               !.islands = IF rest = << >> /\ Len(m.currentIsland) > 0
                           THEN <<m.currentIsland>> \o @ ELSE @]

dfsReturn(m) ==
  LET rest == SubSeq(m.stack, 1, Len(m.stack) - 1)
  IN [m EXCEPT !.stack = rest,
               !.islands = IF rest = << >> /\ Len(m.currentIsland) > 0
                           THEN Append(@, m.currentIsland) ELSE @]

\* one turn of links.forEach in the innermost dfs call
dfsLink_noVisitedCheck(nd, lo, m) ==
  LET top == m.stack[Len(m.stack)]
      k == Min(top.ks)
      nxt == nextNode(nd.links[k], top.nodeId)
      m1 == [m EXCEPT !.stack[Len(m.stack)].ks = @ \ {k}]
  IN dfsCall(nd, lo, m1, nxt, m.currentIsland)

dfsLink(nd, lo, m) ==
  LET top == m.stack[Len(m.stack)]
      k == Min(top.ks)
      nxt == nextNode(nd.links[k], top.nodeId)
      m1 == [m EXCEPT !.stack[Len(m.stack)].ks = @ \ {k}]
  IN IF nxt \notin m.visited
     THEN dfsCall(nd, lo, m1, nxt, m.currentIsland)
     ELSE m1

\* one turn of busNodes.forEach
busTurn(nd, lo, buses, m) ==
  LET node == buses[m.b]
      m1 == [m EXCEPT !.b = @ + 1]
  IN IF startsIsland(m.visited, node)
     THEN dfsCall(nd, lo, m1, node.id, << >>)
     ELSE m1

finished(buses, m) == m.stack = << >> /\ m.b > Len(buses)

step(nd, lo, buses, m) ==
  IF m.stack # << >>
  THEN (IF m.stack[Len(m.stack)].ks = {} THEN dfsReturn(m) ELSE dfsLink(nd, lo, m))
  ELSE IF m.b <= Len(buses) THEN busTurn(nd, lo, buses, m)
  ELSE m

\* n steps, taken in two halves so that the evaluation nests only
\* logarithmically deep; the first half is evaluated before the second starts
RECURSIVE run(_, _, _, _, _)
run(nd, lo, buses, n, m) ==
  IF finished(buses, m) \/ n = 0 THEN m
  ELSE IF n = 1 THEN step(nd, lo, buses, m)
  ELSE CHOOSE r \in {run(nd, lo, buses, n - (n \div 2), h) :
                       h \in {run(nd, lo, buses, n \div 2, m)}} : TRUE

\* enough steps for every run: every bus takes one turn, every visited id (a
\* node or a link endpoint) is entered and left once, and every link is
\* reached at most once from each of its two ends
stepBound(nd) == 2 * Len(nd.nodes) + 4 * Len(nd.links) + 2

\* map a sequence of nodes to their ids
nodeIds(nodes) == [k \in DOMAIN nodes |-> nodes[k].id]

detectIslands(nd, lo) ==
  LET buses == busNodes(nd)
      found == run(nd, lo, buses, stepBound(nd),
                   [visited |-> {}, currentIsland |-> << >>, islands |-> << >>,
                    stack |-> << >>, b |-> 1]).islands
  IN IF Len(found) = 0 /\ Len(buses) > 0
     THEN << nodeIds(buses) >>
     ELSE found

\* ---------------------------------------------------- JavaScript numbers
\* a number n is <<n, 1>>, a quotient is in lowest terms with a positive
\* denominator, NaN is <<0, 0>>
RECURSIVE Gcd(_, _)
Gcd(a, b) == IF b = 0 THEN a ELSE Gcd(b, a % b)

Abs(a) == IF a < 0 THEN -a ELSE a

Num(n) == <<n, 1>>

Rat(n, d) ==
  LET g == Gcd(Abs(n), Abs(d))
  IN IF d > 0 THEN <<n \div g, d \div g>> ELSE <<(-n) \div g, (-d) \div g>>

\* a + b, a / b and a * b of JavaScript on these values (no Infinity arises:
\* the only zero divisor the code meets divides a zero sum)
jsAdd(a, b) ==
  IF a = NaN \/ b = NaN THEN NaN ELSE Rat(a[1] * b[2] + b[1] * a[2], a[2] * b[2])

jsDiv_zeroQuotient(a, b) ==
  IF a = NaN \/ b = NaN THEN NaN
  ELSE IF b[1] = 0 THEN Num(0) ELSE Rat(a[1] * b[2], a[2] * b[1])

jsDiv(a, b) ==
  IF a = NaN \/ b = NaN \/ b[1] = 0 THEN NaN ELSE Rat(a[1] * b[2], a[2] * b[1])

jsMul(a, b) ==
  IF a = NaN \/ b = NaN THEN NaN ELSE Rat(a[1] * b[1], a[2] * b[2])

\* the integers whose decimal form the model's strings can hold
ParseDomain == -1..12

\* String(x) for a property key, and parseInt of such a key
String(x) == IF x = NaN THEN "NaN" ELSE ToString(x[1])

parseInt(str) ==
  IF \E n \in ParseDomain : ToString(n) = str
  THEN Num(CHOOSE n \in ParseDomain : ToString(n) = str)
  ELSE NaN

\* ------------------------------------------------ mapGeneratorsToIslands
\* parseInt(sourceId.replace('G', '')): the number of 'G<n>', NaN for an id
\* that still starts with a letter after the replacement
genNumber(sourceId) == IF sourceId[1] = "G" THEN Num(sourceId[2]) ELSE NaN

\* genMapping[key] = idx on an object
ObjSet(obj, key, val) == [k \in DOMAIN obj \cup {key} |-> IF k = key THEN val ELSE obj[k]]

\* islands.forEach((island, idx) => { if (island.has(targetId)) genMapping[..] = idx })
RECURSIVE forEachIsland_oneBased(_, _, _, _, _)
forEachIsland_oneBased(islands, targetId, key, k, genMapping) ==
  IF k > Len(islands) THEN genMapping
  ELSE forEachIsland_oneBased(islands, targetId, key, k + 1,
         IF targetId \in Range(islands[k])
         THEN ObjSet(genMapping, key, k)
         ELSE genMapping)

RECURSIVE forEachIsland_firstIndex(_, _, _, _, _)
forEachIsland_firstIndex(islands, targetId, key, k, genMapping) ==
  IF k > Len(islands) THEN genMapping
  ELSE forEachIsland_firstIndex(islands, targetId, key, k + 1,
         IF targetId \in Range(islands[k])
         THEN ObjSet(genMapping, key, 0)
         ELSE genMapping)

RECURSIVE forEachIsland(_, _, _, _, _)
forEachIsland(islands, targetId, key, k, genMapping) ==
  IF k > Len(islands) THEN genMapping
  ELSE forEachIsland(islands, targetId, key, k + 1,
         IF targetId \in Range(islands[k])
         THEN ObjSet(genMapping, key, k - 1)
         ELSE genMapping)

\* the property key written for a generator connection
genKey_noOffset(link) == String(genNumber(link.source))

genKey(link) == String(jsAdd(genNumber(link.source), Num(-1)))

\* networkData.links.forEach over the generator connections gs still to
\* come, in list order (the callback does nothing at any other link)
RECURSIVE forEachLink(_, _, _, _)
forEachLink(islands, nd, gs, genMapping) ==
  IF gs = {} THEN genMapping
  ELSE LET link == nd.links[Min(gs)]
       IN forEachLink(islands, nd, gs \ {Min(gs)},
                      forEachIsland(islands, link.target, genKey(link), 1, genMapping))

mapGeneratorsToIslands(islands, nd) ==
  forEachLink(islands, nd,
              {k \in DOMAIN nd.links : nd.links[k].type = "generator_connection"},
              << >>)

\* ---------------------------------------------- calculateIslandFrequencies
\* islands.indexOf(island), 0-based (-1 when absent); islands hold distinct
\* sets, so the first equal member is the island itself
indexOf(islands, island) ==
  IF \E k \in DOMAIN islands : islands[k] = island
  THEN (CHOOSE k \in DOMAIN islands :
          islands[k] = island /\ \A j \in 1..(k - 1) : islands[j] # island) - 1
  ELSE -1

\* Object.entries(genMapping): the array-index keys in ascending order, then
\* the other keys ('-1', 'NaN')
keyOrder == [i \in 1..(Cardinality(ParseDomain) + 1) |->
               IF i < Cardinality(ParseDomain) THEN ToString(i - 1)
               ELSE IF i = Cardinality(ParseDomain) THEN "-1" ELSE "NaN"]

entries(genMapping) ==
  LET ks == SelectAt(keyOrder, {i \in DOMAIN keyOrder : keyOrder[i] \in DOMAIN genMapping})
  IN [i \in DOMAIN ks |-> <<ks[i], genMapping[ks[i]]>>]

\* .filter(([_, islandId]) => islandId === islands.indexOf(island))
\* .map(([genId]) => parseInt(genId))
islandGensOf_all(ents, idx) == [i \in DOMAIN ents |-> parseInt(ents[i][1])]

islandGensOf(ents, idx) ==
  LET mine == SelectAt(ents, {i \in DOMAIN ents : ents[i][2] = idx})
  IN [i \in DOMAIN mine |-> parseInt(mine[i][1])]

\* genSpeeds[genId]: the sample is a 0-based array of numbers; any other
\* index reads undefined, which the sum turns into NaN
speedAt(genSpeeds, genId) ==
  IF genId # NaN /\ genId[2] = 1 /\ (genId[1] + 1) \in DOMAIN genSpeeds
  THEN Num(genSpeeds[genId[1] + 1])
  ELSE NaN

\* islandGens.reduce((sum, genId) => sum + genSpeeds[genId], 0)
RECURSIVE reduceSum(_, _, _, _)
reduceSum(islandGens, genSpeeds, k, sum) ==
  IF k > Len(islandGens) THEN sum
  ELSE reduceSum(islandGens, genSpeeds, k + 1,
                 jsAdd(sum, speedAt(genSpeeds, islandGens[k])))

\* 50 * (1 + avgSpeed)
toHz_noOffset(avgSpeed) == jsMul(Num(50), avgSpeed)

toHz(avgSpeed) == jsMul(Num(50), jsAdd(Num(1), avgSpeed))

islandFrequency(islands, genMapping, genSpeeds, island) ==
  LET islandGens == islandGensOf(entries(genMapping), indexOf(islands, island))
      avgSpeed == jsDiv(reduceSum(islandGens, genSpeeds, 1, Num(0)),
                        Num(Len(islandGens)))
  IN toHz(avgSpeed)

calculateIslandFrequencies(islands, genMapping, genSpeeds) ==
  [k \in DOMAIN islands |-> islandFrequency(islands, genMapping, genSpeeds, islands[k])]

\* ------------------------------------------- getLineFlowDirectionSimple
\* A bus-power sample is [isArray |-> TRUE, items |-> the array] or, while no
\* results have arrived, [isArray |-> FALSE] (null).  An array item is a
\* record; one without p lacks the field.  Injections are rationals.
Infinity == <<1, 0>>

\* a < b on numbers and Infinity
jsLt(a, b) == a[1] * b[2] < b[1] * a[2]

\* Math.min(a, b)
mathMin(a, b) == IF jsLt(b, a) THEN b ELSE a

\* Math.abs(p) < 1e-4
isNeutral_zeroOnly(p) == p[1] = 0

isNeutral(p) == jsLt(<<Abs(p[1]), p[2]>>, Rat(1, 10000))

\* busPower[idx]?.p ?? 0
readP_sentinel(busPower, idx) ==
  IF (idx + 1) \in DOMAIN busPower.items /\ "p" \in DOMAIN busPower.items[idx + 1]
  THEN busPower.items[idx + 1].p
  ELSE Num(-1)

readP(busPower, idx) ==
  IF (idx + 1) \in DOMAIN busPower.items /\ "p" \in DOMAIN busPower.items[idx + 1]
  THEN busPower.items[idx + 1].p
  ELSE Num(0)

\* nodes.findIndex(n => n.id === id), 0-based, -1 when absent
findIndex(nodes, id) ==
  IF \E k \in DOMAIN nodes : nodes[k].id = id
  THEN Min({k \in DOMAIN nodes : nodes[k].id = id}) - 1
  ELSE -1

\* sourceId === nodeId ? targetId : targetId === nodeId ? sourceId : null
neighborId(l, nodeId) ==
  IF l.source = nodeId THEN l.target
  ELSE IF l.target = nodeId THEN l.source ELSE null

\* l.id && outagedLineIds.includes(l.id)
isCut(l, outagedLineIds) == l.id # undefined /\ l.id \in Range(outagedLineIds)

\* the filter of the neighbour links of nodeId (App with the outage list)
keepLink(nd, outagedLineIds, l, nodeId, prev, visited) ==
  /\ ~isCut(l, outagedLineIds)
  /\ l.type \in {"line", "transformer"}
  /\ neighborId(l, nodeId) # null
  /\ prev # <<findIndex(nd.nodes, neighborId(l, nodeId))>>
  /\ findIndex(nd.nodes, neighborId(l, nodeId)) \notin visited

\* .filter(...).map(l => index of the neighbour).filter(i => i !== -1)
neighbors(nd, outagedLineIds, nodeId, prev, visited) ==
  CHOOSE r \in
    {SelectAt(idxs, {i \in DOMAIN idxs : idxs[i] # -1}) :
       idxs \in {[i \in DOMAIN kept |-> findIndex(nd.nodes, neighborId(kept[i], nodeId))] :
                   kept \in {SelectAt(nd.links,
                               {k \in DOMAIN nd.links :
                                  keepLink(nd, outagedLineIds, nd.links[k], nodeId, prev,
                                           visited)})}}} : TRUE

\* queue.push({ idx: neighborIdx, prev: idx }) for each neighbour
pushNeighbors(queue, ns, idx) ==
  queue \o [i \in DOMAIN ns |-> [idx |-> ns[i], prev |-> <<idx>>]]

\* !isNeutral(p) && p < 0
countsAsFound(p) == ~isNeutral(p) /\ jsLt(p, Num(0))

\* one iteration of the while loop of findDeepestSinkP; the search state is
\* [visited, queue, minP, foundNonNeutral]
searchStep(nd, busPower, outagedLineIds, m) ==
  LET item == Head(m.queue)
  IN IF item.idx \in m.visited
     THEN [m EXCEPT !.queue = Tail(m.queue)]
     ELSE [visited |-> m.visited \cup {item.idx},
           queue |-> pushNeighbors(Tail(m.queue),
                       neighbors(nd, outagedLineIds, nd.nodes[item.idx + 1].id,
                                 item.prev, m.visited \cup {item.idx}),
                       item.idx),
           minP |-> IF countsAsFound(readP(busPower, item.idx))
                    THEN mathMin(m.minP, readP(busPower, item.idx))
                    ELSE m.minP,
           foundNonNeutral |-> m.foundNonNeutral
                                 \/ countsAsFound(readP(busPower, item.idx))]

\* while (queue.length > 0), at most n iterations, run in two halves
RECURSIVE searchLoop(_, _, _, _, _)
searchLoop(nd, busPower, outagedLineIds, n, m) ==
  IF m.queue = << >> \/ n = 0 THEN m
  ELSE IF n = 1 THEN searchStep(nd, busPower, outagedLineIds, m)
  ELSE CHOOSE r \in {searchLoop(nd, busPower, outagedLineIds, n - (n \div 2), h) :
                       h \in {searchLoop(nd, busPower, outagedLineIds, n \div 2, m)}} : TRUE

\* every iteration but the first takes an entry a visited node pushed, and a
\* node pushes at most one entry per link end
queueBound(nd) == 2 * Len(nd.links) + 1

\* the search state when the loop of findDeepestSinkP(startIdx, excludeIdx)
\* ends
sinkSearch_noExclude(nd, busPower, outagedLineIds, startIdx, excludeIdx) ==
  searchLoop(nd, busPower, outagedLineIds, queueBound(nd),
             [visited |-> {},
              queue |-> << [idx |-> startIdx, prev |-> null] >>,
              minP |-> Infinity,
              foundNonNeutral |-> FALSE])

sinkSearch(nd, busPower, outagedLineIds, startIdx, excludeIdx) ==
  searchLoop(nd, busPower, outagedLineIds, queueBound(nd),
             [visited |-> {excludeIdx},
              queue |-> << [idx |-> startIdx, prev |-> null] >>,
              minP |-> Infinity,
              foundNonNeutral |-> FALSE])

\* return foundNonNeutral ? minP : null
sinkOf(m) == IF m.foundNonNeutral THEN m.minP ELSE null

findDeepestSinkP(nd, busPower, outagedLineIds, startIdx, excludeIdx) ==
  sinkOf(sinkSearch(nd, busPower, outagedLineIds, startIdx, excludeIdx))

\* the comparison of the two search results
compareSinks_tieToFrom(minP_from, minP_to) ==
  IF minP_from # null /\ minP_to # null
  THEN IF jsLt(minP_to, minP_from) THEN 1 ELSE -1
  ELSE IF minP_from # null THEN -1
  ELSE IF minP_to # null THEN 1 ELSE 0

compareSinks_swapped(minP_from, minP_to) ==
  IF minP_from # null /\ minP_to # null
  THEN IF jsLt(minP_from, minP_to) THEN 1
       ELSE IF jsLt(minP_to, minP_from) THEN -1 ELSE 0
  ELSE IF minP_from # null THEN 1
  ELSE IF minP_to # null THEN -1 ELSE 0

compareSinks(minP_from, minP_to) ==
  IF minP_from # null /\ minP_to # null
  THEN IF jsLt(minP_from, minP_to) THEN -1
       ELSE IF jsLt(minP_to, minP_from) THEN 1 ELSE 0
  ELSE IF minP_from # null THEN -1
  ELSE IF minP_to # null THEN 1 ELSE 0

\* !busPower || !Array.isArray(busPower) || fromIdx === -1 || toIdx === -1
noData(busPower, fromIdx, toIdx) ==
  ~busPower.isArray \/ fromIdx = -1 \/ toIdx = -1

\* App with the outage list: always by search
getLineFlowDirectionSimple(nd, busPower, fromIdx, toIdx, outagedLineIds) ==
  IF noData(busPower, fromIdx, toIdx) THEN 0
  ELSE compareSinks(findDeepestSinkP(nd, busPower, outagedLineIds, fromIdx, toIdx),
                    findDeepestSinkP(nd, busPower, outagedLineIds, toIdx, fromIdx))

\* ---------------------- getLineFlowDirectionSimple, the copy with bus B8
\* The second copy of App takes no outage list; its search keeps a queue of
\* indices, counts every non-neutral injection and filters the links by
\* their ends only.
keepLinkBus8(nd, l, nodeId, visited) ==
  \/ l.source = nodeId /\ findIndex(nd.nodes, l.target) \notin visited
  \/ l.target = nodeId /\ findIndex(nd.nodes, l.source) \notin visited

neighborsBus8(nd, nodeId, visited) ==
  LET kept == SelectAt(nd.links,
                {k \in DOMAIN nd.links : keepLinkBus8(nd, nd.links[k], nodeId, visited)})
      idxs == [i \in DOMAIN kept |->
                 IF kept[i].source = nodeId
                 THEN findIndex(nd.nodes, kept[i].target)
                 ELSE findIndex(nd.nodes, kept[i].source)]
  IN SelectAt(idxs, {i \in DOMAIN idxs : idxs[i] # -1})

\* one iteration of the while loop; the search state is
\* [visited, queue, minP, foundNonNeutral]
searchStepBus8(nd, busPower, m) ==
  LET idx == Head(m.queue)
  IN IF idx \in m.visited
     THEN [m EXCEPT !.queue = Tail(m.queue)]
     ELSE [visited |-> m.visited \cup {idx},
           queue |-> Tail(m.queue)
                       \o neighborsBus8(nd, nd.nodes[idx + 1].id, m.visited \cup {idx}),
           minP |-> IF ~isNeutral(readP(busPower, idx))
                    THEN mathMin(m.minP, readP(busPower, idx))
                    ELSE m.minP,
           foundNonNeutral |-> m.foundNonNeutral \/ ~isNeutral(readP(busPower, idx))]

RECURSIVE searchLoopBus8(_, _, _, _)
searchLoopBus8(nd, busPower, n, m) ==
  IF m.queue = << >> \/ n = 0 THEN m
  ELSE IF n = 1 THEN searchStepBus8(nd, busPower, m)
  ELSE CHOOSE r \in {searchLoopBus8(nd, busPower, n - (n \div 2), h) :
                       h \in {searchLoopBus8(nd, busPower, n \div 2, m)}} : TRUE

sinkSearchBus8(nd, busPower, startIdx, excludeIdx) ==
  searchLoopBus8(nd, busPower, queueBound(nd),
                 [visited |-> {excludeIdx},
                  queue |-> << startIdx >>,
                  minP |-> Infinity,
                  foundNonNeutral |-> FALSE])

findDeepestSinkPBus8(nd, busPower, startIdx, excludeIdx) ==
  sinkOf(sinkSearchBus8(nd, busPower, startIdx, excludeIdx))

determineDirectionFromBFS(pFromSink, pToSink) ==
  IF pFromSink # null /\ pToSink # null
  THEN IF jsLt(pFromSink, pToSink) THEN -1
       ELSE IF jsLt(pToSink, pFromSink) THEN 1 ELSE 0
  ELSE IF pFromSink # null THEN -1
  ELSE IF pToSink # null THEN 1 ELSE 0

\* the logic for the lines that do not touch B8: the two endpoint
\* injections decide unless both are neutral, when the search decides
originalLogic(pFrom, pTo, bfs) ==
  IF ~isNeutral(pFrom) /\ ~isNeutral(pTo)
  THEN IF jsLt(pFrom, pTo) THEN -1 ELSE IF jsLt(pTo, pFrom) THEN 1 ELSE 0
  ELSE IF isNeutral(pFrom) /\ ~isNeutral(pTo)
  THEN IF jsLt(pTo, Num(0)) THEN 1 ELSE -1
  ELSE IF ~isNeutral(pFrom) /\ isNeutral(pTo)
  THEN IF jsLt(pFrom, Num(0)) THEN -1 ELSE 1
  ELSE bfs

\* fromIdx === bus8Idx || toIdx === bus8Idx
bus8Involved(nd, fromIdx, toIdx) ==
  \/ fromIdx = findIndex(nd.nodes, <<"B", 8>>)
  \/ toIdx = findIndex(nd.nodes, <<"B", 8>>)

\* whether the call reaches determineDirectionFromBFS
usesSearchBus8(nd, busPower, fromIdx, toIdx) ==
  /\ ~noData(busPower, fromIdx, toIdx)
  /\ \/ bus8Involved(nd, fromIdx, toIdx)
     \/ isNeutral(readP(busPower, fromIdx)) /\ isNeutral(readP(busPower, toIdx))

getLineFlowDirectionSimpleBus8(nd, busPower, fromIdx, toIdx) ==
  IF noData(busPower, fromIdx, toIdx) THEN 0
  ELSE IF bus8Involved(nd, fromIdx, toIdx)
  THEN determineDirectionFromBFS(findDeepestSinkPBus8(nd, busPower, fromIdx, toIdx),
                                 findDeepestSinkPBus8(nd, busPower, toIdx, fromIdx))
  ELSE originalLogic(readP(busPower, fromIdx), readP(busPower, toIdx),
         determineDirectionFromBFS(findDeepestSinkPBus8(nd, busPower, fromIdx, toIdx),
                                   findDeepestSinkPBus8(nd, busPower, toIdx, fromIdx)))

\* ------------------------------------------------------------------ state
VARIABLES
  networkData,   \* initialNetworkData handed to the results section
  lineOutage,    \* parameters.lineOutage: [enabled, outages]
  latestSpeeds,  \* last row of results.gen_speed; << >> while results is null
  islands,       \* exported island data: islands
  genMapping,    \*                       genMapping
  frequencies,   \*                       frequencies
  busPower,      \* the bus-power sample of App; null until results arrive
  fromIdx,       \* arguments of the last flow-direction call
  toIdx,
  outagedLineIds,
  direction,     \* its result in App with the outage list,
  directionBus8, \* and in the copy with bus B8
  traversal,     \* the locals of a detectIslands or findDeepestSinkP call
                 \* that is run step by step; idle otherwise
  results,       \* the results object of App; null before a simulation starts
  delivered,     \* the streamed step messages that brought a new time, in
                 \* their order of arrival
  pc             \* "waiting": no results yet; "exported": the results
                 \* effect has exported island data; "call"/"mapped": a
                 \* direct call of mapGeneratorsToIslands is pending / made;
                 \* "ask"/"answered": a flow-direction call is pending / made;
                 \* "detect", "assign", "direction", "frequencies": the
                 \* function that is called next in a round of direct calls

flowVars == <<busPower, fromIdx, toIdx, outagedLineIds, direction, directionBus8>>

vars == <<networkData, lineOutage, latestSpeeds, islands, genMapping, frequencies,
          busPower, fromIdx, toIdx, outagedLineIds, direction, directionBus8, traversal,
          results, delivered, pc>>

streamVars == <<results, delivered>>

\* const [results, setResults] = useState(null); nothing streamed
NoStream ==
  /\ results = null
  /\ delivered = << >>

\* no call is being run step by step
idle == [kind |-> "idle"]

\* const [busPower, setBusPower] = useState(null)
noBusPower == [isArray |-> FALSE]

\* no flow-direction call has been made
NoFlowCall ==
  /\ fromIdx = -1
  /\ toIdx = -1
  /\ outagedLineIds = << >>
  /\ direction = 0
  /\ directionBus8 = 0

\* generator speed values of a sample (per-unit deviation, in whole units):
\* three values on the networks with two generators, two on the K2a network
Speeds(nd) == IF nd = initialNetworkData THEN {0, 1} ELSE {-1, 0, 1}

generatorCount(nd) ==
  Cardinality({k \in DOMAIN nd.nodes : nd.nodes[k].type = "generator"})

SpeedSamples(nd) == [1..generatorCount(nd) -> Speeds(nd)]

outageEntry(lineId) == [lineId |-> lineId]

\* the results effect: detectIslands, mapGeneratorsToIslands and
\* calculateIslandFrequencies on the latest speeds, exported as island data;
\* without results nothing is exported
IslandEffect(nd, lo, speeds) ==
  IF Len(speeds) > 0
  THEN \E isl \in {detectIslands(nd, lo)} :
         \E gm \in {mapGeneratorsToIslands(isl, nd)} :
           /\ islands' = isl
           /\ genMapping' = gm
           /\ frequencies' = calculateIslandFrequencies(isl, gm, speeds)
           /\ pc' = "exported"
  ELSE UNCHANGED <<islands, genMapping, frequencies, pc>>

Init ==
  /\ networkData \in Networks
  /\ lineOutage = [enabled |-> TRUE, outages |-> << outageEntry("") >>]
  /\ latestSpeeds = << >>
  /\ islands = << >>
  /\ genMapping = << >>
  /\ frequencies = << >>
  /\ busPower = noBusPower
  /\ NoFlowCall
  /\ traversal = idle
  /\ NoStream
  /\ pc = "waiting"

\* the "Enable Line Outages" switch
ToggleLineOutage ==
  /\ pc \in {"waiting", "exported"}
  /\ lineOutage' = [lineOutage EXCEPT !.enabled = ~lineOutage.enabled]
  /\ IslandEffect(networkData, lineOutage', latestSpeeds)
  /\ UNCHANGED <<networkData, latestSpeeds>>
  /\ UNCHANGED <<flowVars, traversal, streamVars>>

handleAddLineOutage ==
  /\ pc \in {"waiting", "exported"}
  /\ lineOutage.enabled
  /\ Len(lineOutage.outages) < MaxOutages
  /\ lineOutage' = [lineOutage EXCEPT !.outages = Append(@, outageEntry(""))]
  /\ IslandEffect(networkData, lineOutage', latestSpeeds)
  /\ UNCHANGED <<networkData, latestSpeeds>>
  /\ UNCHANGED <<flowVars, traversal, streamVars>>

handleLineOutageChange ==
  /\ pc \in {"waiting", "exported"}
  /\ lineOutage.enabled
  /\ \E index \in DOMAIN lineOutage.outages, value \in OutageChoices(networkData) :
       lineOutage' = [lineOutage EXCEPT !.outages[index].lineId = value]
  /\ IslandEffect(networkData, lineOutage', latestSpeeds)
  /\ UNCHANGED <<networkData, latestSpeeds>>
  /\ UNCHANGED <<flowVars, traversal, streamVars>>

handleRemoveLineOutage ==
  /\ pc \in {"waiting", "exported"}
  /\ lineOutage.enabled
  /\ \E index \in DOMAIN lineOutage.outages :
       lineOutage' = [lineOutage EXCEPT !.outages =
                        SubSeq(@, 1, index - 1) \o SubSeq(@, index + 1, Len(@))]
  /\ IslandEffect(networkData, lineOutage', latestSpeeds)
  /\ UNCHANGED <<networkData, latestSpeeds>>
  /\ UNCHANGED <<flowVars, traversal, streamVars>>

\* a streamed step appends a row to results.gen_speed and the effect runs
\* again on the new last row
NewSpeedSample ==
  /\ pc \in {"waiting", "exported"}
  /\ \E isl \in {detectIslands(networkData, lineOutage)} :
       \E gm \in {mapGeneratorsToIslands(isl, networkData)} :
         \E sample \in SpeedSamples(networkData) :
           /\ latestSpeeds' = sample
           /\ islands' = isl
           /\ genMapping' = gm
           /\ frequencies' = calculateIslandFrequencies(isl, gm, sample)
           /\ pc' = "exported"
  /\ UNCHANGED <<networkData, lineOutage>>
  /\ UNCHANGED <<flowVars, traversal, streamVars>>

Next ==
  \/ ToggleLineOutage
  \/ handleAddLineOutage
  \/ handleLineOutageChange
  \/ handleRemoveLineOutage
  \/ NewSpeedSample

Spec == Init /\ [][Next]_vars

\* ------------------------------------------- direct calls of the mapper
\* every outage configuration the panel can build on a network
OutageLists(nd) ==
  UNION {[1..n -> {outageEntry(id) : id \in OutageChoices(nd)}] : n \in 0..MaxOutages}

OutageConfigs(nd) == [enabled : BOOLEAN, outages : OutageLists(nd)]

\* the lists made of some of the islands of isl, in any order
Arrangements(isl) ==
  UNION {{[i \in 1..n |-> isl[p[i]]] :
            p \in {q \in [1..n -> DOMAIN isl] :
                     \A i, j \in 1..n : i # j => q[i] # q[j]}} :
         n \in 0..Len(isl)}

InitMap ==
  /\ networkData \in Networks
  /\ lineOutage \in OutageConfigs(networkData)
  /\ latestSpeeds = << >>
  /\ islands = << >>
  /\ genMapping = << >>
  /\ frequencies = << >>
  /\ busPower = noBusPower
  /\ NoFlowCall
  /\ traversal = idle
  /\ NoStream
  /\ pc = "call"

\* mapGeneratorsToIslands(list, networkData) on a rearranged island list
CallMapGenerators ==
  /\ pc = "call"
  /\ \E list \in Arrangements(detectIslands(networkData, lineOutage)) :
       /\ islands' = list
       /\ genMapping' = mapGeneratorsToIslands(list, networkData)
  /\ pc' = "mapped"
  /\ UNCHANGED <<networkData, lineOutage, latestSpeeds, frequencies>>
  /\ UNCHANGED <<flowVars, traversal, streamVars>>

NextMap == CallMapGenerators

SpecMap == InitMap /\ [][NextMap]_vars

\* ------------------------------------- direct calls of the flow direction
\* the network around bus B8: a ring B7 - B8 - B9 - T1 - B7 with a parallel
\* line and a load, the buses first as in initialNetworkData
ringNetwork ==
  [nodes |-> << Bus(7), Bus(8), Bus(9), Trafo(1), Load(1) >>,
   links |-> <<
     Link(<<"L",1>>, <<"B",7>>, "load_connection", undefined),
     Link(<<"B",7>>, <<"B",8>>, "line", "L7-8-1"),
     Link(<<"B",7>>, <<"B",8>>, "line", "L7-8-2"),
     Link(<<"B",8>>, <<"B",9>>, "line", "L8-9-1"),
     Link(<<"B",9>>, <<"T",1>>, "transformer", "T1-1"),
     Link(<<"T",1>>, <<"B",7>>, "transformer", "T1-2") >>]

FlowNetworks == {initialNetworkData, ringNetwork}

\* solver noise below the neutral threshold
noise == Rat(-1, 20000)

\* injections of a sample: multiples of 50 MW up to MaxP steps, either sign,
\* and noise (an item without p stands for 0)
PValues == {Num(50 * k) : k \in ((-MaxP)..MaxP) \ {0}} \cup {noise}

\* an item with p, and an item without
withP(p) == [p |-> p]
withoutP == [q |-> Num(0)]

busCount(nd) == Cardinality({k \in DOMAIN nd.nodes : startsWithB(nd.nodes[k].id)})

\* samples of the ring network: one item per bus, with or without p, or a
\* shorter array
ringSamples ==
  UNION {[1..n -> {withP(p) : p \in PValues} \cup {withoutP}] :
           n \in 0..busCount(ringNetwork)}

\* samples of the K2a network: three neighbouring buses (B5, B6, B7 or B7,
\* B8, B9) carry -100, noise or +100, the other buses 0
k2aSample(first, v) ==
  [i \in 1..busCount(initialNetworkData) |->
     IF i \in first..(first + 2) THEN withP(v[i - first + 1]) ELSE withP(Num(0))]

k2aSamples ==
  {k2aSample(first, v) :
     first \in {5, 7}, v \in [1..3 -> {Num(-100), noise, Num(100)}]}

BusPowerSamples(nd) ==
  {noBusPower} \cup
  {[isArray |-> TRUE, items |-> a] :
     a \in IF nd = initialNetworkData THEN k2aSamples ELSE ringSamples}

\* ids an outage list of a call can name: one of the parallel lines B7 - B8,
\* the line B8 - B9 and half of the transformer path on the ring; both
\* parallel lines B7 - B8 on the K2a network
FlowOutageChoices(nd) ==
  IF nd = initialNetworkData
  THEN {"L7-8-1", "L7-8-2"}
  ELSE {"L7-8-1", "L8-9-1", "T1-1"}

\* outage lists handed to the call: any of these ids, in network order
FlowOutageLists(nd) ==
  {SelectAt([k \in DOMAIN nd.links |-> nd.links[k].id], keep) :
     keep \in SUBSET {k \in DOMAIN nd.links : nd.links[k].id \in FlowOutageChoices(nd)}}

\* the ends of every link, as the graph component asks them
linkEnds(nd) ==
  {<<findIndex(nd.nodes, nd.links[k].source), findIndex(nd.nodes, nd.links[k].target)>> :
     k \in DOMAIN nd.links}

\* indices of the buses and transformer nodes
branchNodes(nd) ==
  {k - 1 : k \in {j \in DOMAIN nd.nodes :
                    startsWithB(nd.nodes[j].id) \/ nd.nodes[j].type = "transformer"}}

\* the pairs asked: the ends of every link; on the ring also every pair of
\* different buses and transformer nodes, a node paired with itself, and
\* pairs with a node that was not found
FlowCalls(nd) ==
  IF nd = initialNetworkData
  THEN linkEnds(nd)
  ELSE linkEnds(nd)
         \cup {q \in branchNodes(nd) \X branchNodes(nd) : q[1] # q[2]}
         \cup {<<0, 0>>, <<-1, 0>>, <<0, -1>>, <<-1, -1>>}

InitFlow ==
  /\ networkData \in FlowNetworks
  /\ lineOutage = [enabled |-> TRUE, outages |-> << outageEntry("") >>]
  /\ latestSpeeds = << >>
  /\ islands = << >>
  /\ genMapping = << >>
  /\ frequencies = << >>
  /\ busPower \in BusPowerSamples(networkData)
  /\ NoFlowCall
  /\ traversal = idle
  /\ NoStream
  /\ pc = "ask"

\* one call of each copy on the same arguments
CallFlowDirection ==
  /\ pc = "ask"
  /\ \E q \in FlowCalls(networkData), out \in FlowOutageLists(networkData) :
       /\ fromIdx' = q[1]
       /\ toIdx' = q[2]
       /\ outagedLineIds' = out
       /\ direction' = getLineFlowDirectionSimple(networkData, busPower, q[1], q[2], out)
       /\ directionBus8' = getLineFlowDirectionSimpleBus8(networkData, busPower, q[1], q[2])
  /\ pc' = "answered"
  /\ UNCHANGED <<networkData, lineOutage, latestSpeeds, islands, genMapping,
                 frequencies, busPower, traversal, results, delivered>>

NextFlow == CallFlowDirection

SpecFlow == InitFlow /\ [][NextFlow]_vars

\* ------------------------------- direct calls on graphs that are not tidy
\* branches with an end that is no node of the three-bus networks: two lines
\* to a missing bus B4, one of them stored from the missing end, and a
\* transformer branch to a missing transformer node T2
danglingBranches ==
  << Link(<<"B",1>>, <<"B",4>>, "line", "L1-4"),
     Link(<<"B",4>>, <<"B",3>>, "line", "L4-3"),
     Link(<<"B",2>>, <<"T",2>>, "transformer", "T2-1") >>

\* the generator connections of the three-bus networks, those at the
\* positions in rev stored as (bus, generator)
genLinksStored(rev) ==
  [k \in DOMAIN smallGenLinks |->
     IF k \in rev
     THEN Link(smallGenLinks[k].target, smallGenLinks[k].source,
               "generator_connection", undefined)
     ELSE smallGenLinks[k]]

graphWith(keep, dangling, rev) ==
  [nodes |-> smallNodes,
   links |-> genLinksStored(rev) \o SelectAt(smallBranches, keep)
               \o SelectAt(danglingBranches, dangling)]

\* the three-bus networks, as they are, with some dangling branches, or with
\* some generator connections stored the other way round
GraphNetworks ==
  {graphWith(keep, dangling, {}) :
     keep \in SUBSET (1..Len(smallBranches)),
     dangling \in SUBSET (1..Len(danglingBranches))}
  \cup {graphWith(keep, {}, rev) :
          keep \in SUBSET (1..Len(smallBranches)),
          rev \in (SUBSET (1..Len(smallGenLinks))) \ {{}}}

\* outage configurations with at most one entry that names a branch
GraphOutageConfigs(nd) ==
  [enabled : BOOLEAN,
   outages : {<< >>} \cup {<<outageEntry(id)>> : id \in OutageChoices(nd) \ {""}}]

\* parameters.lineOutage?.outages?.map(o => o.lineId).filter(Boolean) || []
outagedLineIdsOf(lo) ==
  SelectAt([k \in DOMAIN lo.outages |-> lo.outages[k].lineId],
           {k \in DOMAIN lo.outages : lo.outages[k].lineId # ""})

\* flow-direction questions on the three-bus networks (node indices: B2 is
\* 0, B1 is 2, B3 is 4): a sample and a pair of endpoints
GraphQueries ==
  { [busPower |-> [isArray |-> TRUE,
                   items |-> << withP(Num(50)), withoutP, withP(Num(-50)),
                                withoutP, withP(noise) >>],
     fromIdx |-> 2, toIdx |-> 0],
    [busPower |-> [isArray |-> TRUE,
                   items |-> << withP(noise), withoutP, withP(Num(50)),
                                withoutP, withP(Num(-50)) >>],
     fromIdx |-> 0, toIdx |-> 4] }

\* rows of generator speeds for the frequency calculation
GraphSpeeds == { <<0, 1>>, <<-1, 1>> }

InitGraph ==
  /\ networkData \in GraphNetworks
  /\ lineOutage \in GraphOutageConfigs(networkData)
  /\ latestSpeeds \in GraphSpeeds
  /\ islands = << >>
  /\ genMapping = << >>
  /\ frequencies = << >>
  /\ \E q \in GraphQueries :
       /\ busPower = q.busPower
       /\ fromIdx = q.fromIdx
       /\ toIdx = q.toIdx
  /\ outagedLineIds = outagedLineIdsOf(lineOutage)
  /\ direction = 0
  /\ directionBus8 = 0
  /\ traversal = idle
  /\ NoStream
  /\ pc = "detect"

\* detectIslands(networkData, lineOutage), as the in-place variant
\* networkData.nodes = networkData.nodes.filter(...) would leave the state
CallDetectIslands_filtersInPlace ==
  /\ pc = "detect"
  /\ islands' = detectIslands(networkData, lineOutage)
  /\ networkData' = [networkData EXCEPT !.nodes = busNodes(networkData)]
  /\ pc' = "assign"
  /\ UNCHANGED <<lineOutage, latestSpeeds, genMapping, frequencies>>
  /\ UNCHANGED <<flowVars, traversal, streamVars>>

\* detectIslands(networkData, lineOutage): the function writes to its own
\* visited, currentIsland and islands only
CallDetectIslands ==
  /\ pc = "detect"
  /\ islands' = detectIslands(networkData, lineOutage)
  /\ pc' = "assign"
  /\ UNCHANGED <<networkData, lineOutage, latestSpeeds, genMapping, frequencies>>
  /\ UNCHANGED <<flowVars, traversal, streamVars>>

\* mapGeneratorsToIslands(islands, networkData) on the detected islands: the
\* function writes to its own genMapping only
CallMapGeneratorsToIslands ==
  /\ pc = "assign"
  /\ genMapping' = mapGeneratorsToIslands(islands, networkData)
  /\ pc' = "direction"
  /\ UNCHANGED <<networkData, lineOutage, latestSpeeds, islands, frequencies>>
  /\ UNCHANGED <<flowVars, traversal, streamVars>>

\* getLineFlowDirectionSimple(busPower, fromIdx, toIdx, outagedLineIds), and
\* the copy of part_001 on the same sample and pair: the searches write to
\* their own visited and queue only
CallGetLineFlowDirectionSimple ==
  /\ pc = "direction"
  /\ direction' = getLineFlowDirectionSimple(networkData, busPower, fromIdx, toIdx,
                                             outagedLineIds)
  /\ directionBus8' = getLineFlowDirectionSimpleBus8(networkData, busPower, fromIdx, toIdx)
  /\ pc' = "frequencies"
  /\ UNCHANGED <<networkData, lineOutage, latestSpeeds, islands, genMapping, frequencies,
                 busPower, fromIdx, toIdx, outagedLineIds, traversal,
                 results, delivered>>

\* calculateIslandFrequencies(islands, genMapping, latestSpeeds); the four
\* functions can then be called again on the same arguments
CallCalculateIslandFrequencies ==
  /\ pc = "frequencies"
  /\ frequencies' = calculateIslandFrequencies(islands, genMapping, latestSpeeds)
  /\ pc' = "detect"
  /\ UNCHANGED <<networkData, lineOutage, latestSpeeds, islands, genMapping>>
  /\ UNCHANGED <<flowVars, traversal, streamVars>>

NextGraph ==
  \/ CallDetectIslands
  \/ CallMapGeneratorsToIslands
  \/ CallGetLineFlowDirectionSimple
  \/ CallCalculateIslandFrequencies

SpecGraph == InitGraph /\ [][NextGraph]_vars

\* ------------------------------------------- traversals, step by step
\* networks with cycles, parallel lines and dangling branches
TraverseNetworks ==
  {initialNetworkData, ringNetwork,
   smallNetwork(1..Len(smallBranches)),
   graphWith(1..Len(smallBranches), {1, 2}, {})}

\* flow-direction questions on these networks, one of them before any
\* sample has arrived
TraverseQueries(nd) ==
  {[busPower |-> noBusPower, fromIdx |-> 0, toIdx |-> 1]}
  \cup
  (IF nd = initialNetworkData
   THEN {[busPower |-> [isArray |-> TRUE,
                        items |-> k2aSample(5, <<Num(100), noise, Num(-100)>>)],
          fromIdx |-> q[1], toIdx |-> q[2]] : q \in {<<4, 5>>, <<6, 7>>}}
   ELSE IF nd = ringNetwork
   THEN {[busPower |-> [isArray |-> TRUE,
                        items |-> <<withP(Num(50)), withP(noise), withP(Num(-50))>>],
          fromIdx |-> q[1], toIdx |-> q[2]] : q \in {<<0, 1>>, <<1, 2>>}}
   ELSE GraphQueries)

\* const visited = new Set(); const islands = []; busNodes.forEach not begun
dfsStart ==
  [visited |-> {}, currentIsland |-> << >>, islands |-> << >>, stack |-> << >>, b |-> 1]

\* const visited = new Set([excludeIdx]); const queue = [{ idx: startIdx,
\* prev: null }]; let minP = Infinity; let foundNonNeutral = false
searchStart(startIdx, excludeIdx) ==
  [visited |-> {excludeIdx},
   queue |-> << [idx |-> startIdx, prev |-> null] >>,
   minP |-> Infinity,
   foundNonNeutral |-> FALSE]

InitTraverse ==
  /\ networkData \in TraverseNetworks
  /\ lineOutage \in GraphOutageConfigs(networkData)
  /\ latestSpeeds = << >>
  /\ islands = << >>
  /\ genMapping = << >>
  /\ frequencies = << >>
  /\ \E q \in TraverseQueries(networkData) :
       /\ busPower = q.busPower
       /\ fromIdx = q.fromIdx
       /\ toIdx = q.toIdx
  /\ outagedLineIds = outagedLineIdsOf(lineOutage)
  /\ direction = 0
  /\ directionBus8 = 0
  /\ traversal = idle
  /\ NoStream
  /\ pc = "start"

\* detectIslands is entered
EnterDetectIslands ==
  /\ pc = "start"
  /\ traversal' = [kind |-> "dfs", m |-> dfsStart]
  /\ pc' = "dfs"
  /\ UNCHANGED <<networkData, lineOutage, latestSpeeds, islands, genMapping, frequencies>>
  /\ UNCHANGED <<flowVars, streamVars>>

\* one step of detectIslands: a turn of busNodes.forEach, a turn of
\* links.forEach in the innermost dfs call, or the return of that call
DetectIslandsStep ==
  /\ pc = "dfs"
  /\ ~finished(busNodes(networkData), traversal.m)
  /\ traversal' = [traversal EXCEPT
                     !.m = step(networkData, lineOutage, busNodes(networkData), @)]
  /\ UNCHANGED <<networkData, lineOutage, latestSpeeds, islands, genMapping, frequencies, pc>>
  /\ UNCHANGED <<flowVars, streamVars>>

\* detectIslands returns its islands, or the one island of all buses
ReturnIslands ==
  /\ pc = "dfs"
  /\ finished(busNodes(networkData), traversal.m)
  /\ islands' = IF Len(traversal.m.islands) = 0 /\ Len(busNodes(networkData)) > 0
                THEN << nodeIds(busNodes(networkData)) >>
                ELSE traversal.m.islands
  /\ traversal' = idle
  /\ pc' = "direction"
  /\ UNCHANGED <<networkData, lineOutage, latestSpeeds, genMapping, frequencies>>
  /\ UNCHANGED <<flowVars, streamVars>>

\* getLineFlowDirectionSimple is entered: it returns 0 at once, or begins
\* findDeepestSinkP(fromIdx, toIdx)
EnterFlowDirection ==
  /\ pc = "direction"
  /\ IF noData(busPower, fromIdx, toIdx)
     THEN /\ direction' = 0
          /\ traversal' = idle
          /\ pc' = "done"
     ELSE /\ direction' = direction
          /\ traversal' = [kind |-> "search", m |-> searchStart(fromIdx, toIdx),
                           minP_from |-> null]
          /\ pc' = "searchFrom"
  /\ UNCHANGED <<networkData, lineOutage, latestSpeeds, islands, genMapping, frequencies,
                 busPower, fromIdx, toIdx, outagedLineIds, directionBus8,
                 results, delivered>>

\* one iteration of the while loop of findDeepestSinkP
SearchStep ==
  /\ pc \in {"searchFrom", "searchTo"}
  /\ traversal.m.queue # << >>
  /\ traversal' = [traversal EXCEPT
                     !.m = searchStep(networkData, busPower, outagedLineIds, @)]
  /\ UNCHANGED <<networkData, lineOutage, latestSpeeds, islands, genMapping, frequencies, pc>>
  /\ UNCHANGED <<flowVars, streamVars>>

\* findDeepestSinkP returns: the search from toIdx begins, or the two
\* results are compared
ReturnSink ==
  /\ pc \in {"searchFrom", "searchTo"}
  /\ traversal.m.queue = << >>
  /\ IF pc = "searchFrom"
     THEN /\ traversal' = [kind |-> "search", m |-> searchStart(toIdx, fromIdx),
                           minP_from |-> sinkOf(traversal.m)]
          /\ direction' = direction
          /\ pc' = "searchTo"
     ELSE /\ direction' = compareSinks(traversal.minP_from, sinkOf(traversal.m))
          /\ traversal' = idle
          /\ pc' = "done"
  /\ UNCHANGED <<networkData, lineOutage, latestSpeeds, islands, genMapping, frequencies,
                 busPower, fromIdx, toIdx, outagedLineIds, directionBus8,
                 results, delivered>>

NextTraverse ==
  \/ EnterDetectIslands
  \/ DetectIslandsStep
  \/ ReturnIslands
  \/ EnterFlowDirection
  \/ SearchStep
  \/ ReturnSink

SpecTraverse == InitTraverse /\ [][NextTraverse]_vars

\* both functions are synchronous: a call that has begun runs on until it
\* returns
SpecTraverseFair == SpecTraverse /\ WF_vars(NextTraverse)

\* ------------------------------------------------- streamed step messages
\* An array held by the results object is [isArray |-> TRUE, items |-> seq],
\* any other value is [isArray |-> FALSE, value |-> v].  What a step carries
\* for a key other than t is a row of numbers; an array slot read past the
\* end of its array (undefined) is the empty row.
array(items) == [isArray |-> TRUE, items |-> items]

plain(v) == [isArray |-> FALSE, value |-> v]

emptySlot == << >>

\* setResults({ t: [], ..., gen_speed: [], ... }) of the App without PLL
\* keys: t and one of the series that start as empty arrays
initialResults == [t |-> array(<< >>), gen_speed |-> array(<< >>)]

\* the same in the App that also starts pll1_angle as an empty array
initialResultsPll ==
  [t |-> array(<< >>), gen_speed |-> array(<< >>), pll1_angle |-> array(<< >>)]

\* the row that the step with time T carries for a key
rowOf(T, key) == IF key = "gen_speed" THEN <<10 * T>> ELSE <<10 * T + 5>>

\* data.data of a step: its time, gen_speed (left out, null or a row) and
\* pll1_angle (left out or a row)
stepData(T, speed, angle) ==
  [key \in {"t"} \cup (IF speed = "omitted" THEN {} ELSE {"gen_speed"})
                 \cup (IF angle = "omitted" THEN {} ELSE {"pll1_angle"}) |->
     IF key = "t" THEN T
     ELSE IF key = "gen_speed" /\ speed = "null" THEN null
     ELSE rowOf(T, key)]

StepMessages ==
  {stepData(T, speed, angle) :
     T \in 1..MaxTime, speed \in {"omitted", "null", "row"}, angle \in {"omitted", "row"}}

\* the order in which for (const key in data.data) meets the keys
stepKeys == << "t", "gen_speed", "pll1_angle" >>

\* newResults.t ? newResults.t.indexOf(timePoint) : -1
existingTimeIndex(newResults, timePoint) ==
  IF "t" \in DOMAIN newResults THEN indexOf(newResults.t.items, timePoint) ELSE -1

\* the body of the loop over the keys of data.data (a step always carries
\* its time)
appendKey(newResults, data, key) ==
  IF key # "t" /\ data[key] = null THEN newResults
  ELSE IF key \in DOMAIN newResults /\ newResults[key].isArray
  THEN ObjSet(newResults, key, array(Append(newResults[key].items, data[key])))
  ELSE IF key = "t" THEN ObjSet(newResults, key, array(<< data[key] >>))
  ELSE ObjSet(newResults, key, plain(data[key]))

RECURSIVE forInData(_, _, _)
forInData(newResults, data, k) ==
  IF k > Len(stepKeys) THEN newResults
  ELSE forInData(IF stepKeys[k] \in DOMAIN data
                 THEN appendKey(newResults, data, stepKeys[k])
                 ELSE newResults,
                 data, k + 1)

\* Array.from(t.keys()).sort((a, b) => t[a] - t[b]): the positions of t in
\* ascending order of their times, equal times in their order in t
sortedIndices(t) ==
  [j \in DOMAIN t |->
     CHOOSE i \in DOMAIN t :
       Cardinality({h \in DOMAIN t : t[h] < t[i] \/ (t[h] = t[i] /\ h < i)}) = j - 1]

\* indices.map(i => items[i])
reorder(items, indices) ==
  [j \in DOMAIN indices |->
     IF indices[j] \in DOMAIN items THEN items[indices[j]] ELSE emptySlot]

\* if (newResults.t && newResults.t.length > 1) every array is reordered by
\* the sorted positions of t, t itself last
sortByTime_never(newResults) == newResults

sortByTime(newResults) ==
  IF "t" \in DOMAIN newResults /\ Len(newResults.t.items) > 1
  THEN [key \in DOMAIN newResults |->
          IF newResults[key].isArray
          THEN array(reorder(newResults[key].items, sortedIndices(newResults.t.items)))
          ELSE newResults[key]]
  ELSE newResults

\* the updater passed to setResults for a step message (the App with PLL
\* keys first re-creates its PLL arrays where they are no arrays, which its
\* initial object never lets happen)
onStepMessage(prevResults, data) ==
  IF existingTimeIndex(prevResults, data.t) # -1
  THEN prevResults
  ELSE sortByTime(forInData(prevResults, data, 1))

InitStream ==
  /\ networkData = initialNetworkData
  /\ lineOutage = [enabled |-> TRUE, outages |-> << outageEntry("") >>]
  /\ latestSpeeds = << >>
  /\ islands = << >>
  /\ genMapping = << >>
  /\ frequencies = << >>
  /\ busPower = noBusPower
  /\ NoFlowCall
  /\ traversal = idle
  /\ NoStream
  /\ pc = "stopped"

\* handleStartSimulation: the results object is set up empty and the event
\* source is opened
handleStartSimulation ==
  /\ pc = "stopped"
  /\ results' \in {initialResults, initialResultsPll}
  /\ delivered' = << >>
  /\ pc' = "streaming"
  /\ UNCHANGED <<networkData, lineOutage, latestSpeeds, islands, genMapping, frequencies>>
  /\ UNCHANGED <<flowVars, traversal>>

\* eventSource.onmessage with a message of type 'step'
StepMessage ==
  /\ pc = "streaming"
  /\ \E data \in StepMessages :
       /\ results' = onStepMessage(results, data)
       /\ delivered' = IF \E k \in DOMAIN delivered : delivered[k].t = data.t
                       THEN delivered
                       ELSE Append(delivered, data)
  /\ UNCHANGED <<networkData, lineOutage, latestSpeeds, islands, genMapping, frequencies, pc>>
  /\ UNCHANGED <<flowVars, traversal>>

NextStream ==
  \/ handleStartSimulation
  \/ StepMessage

SpecStream == InitStream /\ [][NextStream]_vars

\* ------------------------------------------------------------ vocabulary
\* ids of the bus nodes of the network
BusIds == {networkData.nodes[k].id :
             k \in {j \in DOMAIN networkData.nodes : networkData.nodes[j].id[1] = "B"}}

\* edge ids the outage configuration takes out of service
OutageSet == IF lineOutage.enabled
             THEN {lineOutage.outages[k].lineId : k \in DOMAIN lineOutage.outages}
             ELSE {}

\* Line/Transformer edges, all of them and those in service
Branches == {k \in DOMAIN networkData.links :
               networkData.links[k].type \in {"line", "transformer"}}

InService == {k \in Branches : networkData.links[k].id \notin OutageSet}

\* ids joined to a by a path of the edges es (closure by rounds)
Reach(a, es) ==
  LET ends == {<<networkData.links[k].source, networkData.links[k].target>> : k \in es}
      R[n \in 0..Len(networkData.nodes)] ==
        IF n = 0 THEN {a}
        ELSE UNION {prev \cup {e[2] : e \in {f \in ends : f[1] \in prev}}
                         \cup {e[1] : e \in {f \in ends : f[2] \in prev}} :
                    prev \in {R[n - 1]}}
  IN R[Len(networkData.nodes)]

\* the groups of buses joined by paths of the edges es
BusGroups(es) == {Reach(a, es) \cap BusIds : a \in BusIds}

\* 0-based indices of the islands that hold id x
IslandsOf(x) == {i - 1 : i \in {j \in DOMAIN islands : x \in Range(islands[j])}}

\* declared numbers of the generators whose connection edge ends at a bus of
\* some island of the list
ConnectedGens ==
  {networkData.links[k].source[2] :
     k \in {j \in DOMAIN networkData.links :
              /\ networkData.links[j].type = "generator_connection"
              /\ IslandsOf(networkData.links[j].target) # {}}}

\* 0-based generator indices mapped to island index i
GensOf(i) == {g \in 0..(Len(latestSpeeds) - 1) :
                ToString(g) \in DOMAIN genMapping /\ genMapping[ToString(g)] = i}

\* sum of the latest speeds of the generators G
SpeedSum(G) ==
  LET S[H \in SUBSET G] ==
        IF H = {} THEN 0
        ELSE LET g == CHOOSE x \in H : TRUE IN latestSpeeds[g + 1] + S[H \ {g}]
  IN S[G]

\* ------------------------------------------------------------------ claims
\* C1: the islands detectIslands returns leave no bus out and hold no bus
\* twice: every bus id of the network is a member of exactly one island.
C1_EveryBusInExactlyOneIsland ==
  pc = "exported" =>
    \A b \in BusIds : Cardinality(IslandsOf(b)) = 1

\* C1 witness: several islands were returned, one of them with several buses
C1_Witness ==
  /\ pc = "exported"
  /\ Len(islands) >= 2
  /\ \E i \in DOMAIN islands : Cardinality(Range(islands[i]) \cap BusIds) >= 2

\* C2: two buses are in the same island exactly when a path of in-service
\* Line/Transformer edges joins them (possibly through transformer nodes);
\* generator, load and shunt connections join nothing.
C2_IslandsAreConnectedComponents ==
  pc = "exported" =>
    \A a \in BusIds :
      \A b \in BusIds :
        (IslandsOf(a) \cap IslandsOf(b) # {}) <=> (b \in Reach(a, InService))

\* C2 witness: an outaged branch separates two buses while two other buses
\* stay joined only through a transformer node
C2_Witness ==
  /\ pc = "exported"
  /\ \E k \in Branches \ InService :
       IslandsOf(networkData.links[k].source) \cap IslandsOf(networkData.links[k].target) = {}
  /\ \E a \in BusIds, b \in BusIds :
       /\ a # b
       /\ IslandsOf(a) = IslandsOf(b)
       /\ b \notin Reach(a, {k \in InService : networkData.links[k].type = "line"})

\* C3: every member of every returned island is the id of a bus node.
C3_OnlyBusesInIslands ==
  pc = "exported" =>
    \A i \in DOMAIN islands : Range(islands[i]) \subseteq BusIds

\* C4: with no branch outaged, on a network whose buses are all joined
\* through Line/Transformer edges, exactly one island is returned.
C4_NoOutageOneIsland ==
  (/\ pc = "exported"
   /\ InService = Branches
   /\ Cardinality(BusGroups(Branches)) = 1)
  => Len(islands) = 1

\* C4 witness: a connected network evaluated with outages switched off while
\* the outage list names one of its branches
C4_Witness ==
  /\ pc = "exported"
  /\ ~lineOutage.enabled
  /\ \E k \in Branches, j \in DOMAIN lineOutage.outages :
       lineOutage.outages[j].lineId = networkData.links[k].id
  /\ Cardinality(BusGroups(Branches)) = 1
  /\ Cardinality(BusIds) >= 2
  /\ Len(islands) = 1

\* C5: when the outaged branches are all the branches between two bus
\* groups of an otherwise connected network, exactly two islands are
\* returned, they are disjoint and their union is the bus set; and a branch
\* outaged beside an in-service parallel branch splits nothing.
C5_TwoGroupsTwoIslands ==
  pc = "exported" =>
    /\ (Cardinality(BusGroups(Branches)) = 1 /\ Cardinality(BusGroups(InService)) = 2)
       => /\ Len(islands) = 2
          /\ Range(islands[1]) \cap Range(islands[2]) = {}
          /\ Range(islands[1]) \cup Range(islands[2]) = BusIds
    /\ \A k \in Branches \ InService :
         (\E j \in InService :
            {networkData.links[j].source, networkData.links[j].target}
              = {networkData.links[k].source, networkData.links[k].target})
         => IslandsOf(networkData.links[k].source) = IslandsOf(networkData.links[k].target)

\* C6: every value of the generator mapping computed from the detected
\* islands is an index of that island list.
C6_MappedIndexValid ==
  pc = "exported" =>
    \A key \in DOMAIN genMapping :
      genMapping[key] >= 0 /\ genMapping[key] < Len(islands)

\* C6 witness: generators mapped to two different islands, the last one
\* included
C6_Witness ==
  /\ pc = "exported"
  /\ Len(islands) >= 2
  /\ \E key \in DOMAIN genMapping : genMapping[key] = Len(islands) - 1
  /\ \E key \in DOMAIN genMapping : genMapping[key] = 0

\* C7: whatever the order of the island list, each generator whose bus is in
\* an island of the list is mapped to the position of that island in the list.
C7_MappedToIslandOfBus ==
  pc = "mapped" =>
    \A k \in DOMAIN networkData.links :
      (/\ networkData.links[k].type = "generator_connection"
       /\ IslandsOf(networkData.links[k].target) # {})
      => /\ ToString(networkData.links[k].source[2] - 1) \in DOMAIN genMapping
         /\ genMapping[ToString(networkData.links[k].source[2] - 1)]
              \in IslandsOf(networkData.links[k].target)

\* C7 witness: the list is the detected one in another order, and a
\* generator is mapped to a position other than the first
C7_Witness ==
  /\ pc = "mapped"
  /\ Len(islands) >= 2
  /\ islands # detectIslands(networkData, lineOutage)
  /\ Range(islands) = Range(detectIslands(networkData, lineOutage))
  /\ \E key \in DOMAIN genMapping : genMapping[key] > 0

\* C8: the keys of the mapping are the declared numbers, minus one, of the
\* generators whose bus is in an island of the list; a generator whose bus is
\* in none has no key.
C8_KeysAreNumbersMinusOne ==
  pc = "mapped" =>
    DOMAIN genMapping = {ToString(n - 1) : n \in ConnectedGens}

\* C8 witness: the list leaves out the island of one generator and holds the
\* island of another
C8_Witness ==
  /\ pc = "mapped"
  /\ \E k \in DOMAIN networkData.links :
       /\ networkData.links[k].type = "generator_connection"
       /\ IslandsOf(networkData.links[k].target) = {}
       /\ ToString(networkData.links[k].source[2] - 1) \notin DOMAIN genMapping
  /\ DOMAIN genMapping # {}

\* C9: one frequency per island, in island order; for an island with mapped
\* generators it is 50 * (1 + mean of the speeds of exactly those generators).
C9_FrequencyIsFiftyTimesOnePlusMean ==
  pc = "exported" =>
    /\ Len(frequencies) = Len(islands)
    /\ \A i \in DOMAIN islands :
         GensOf(i - 1) # {} =>
           frequencies[i] = Rat(50 * (Cardinality(GensOf(i - 1)) + SpeedSum(GensOf(i - 1))),
                                Cardinality(GensOf(i - 1)))

\* C9 witness: two islands with generators, one of them with two generators
\* at different speeds, and different frequencies
C9_Witness ==
  /\ pc = "exported"
  /\ \E i \in DOMAIN islands, j \in DOMAIN islands :
       /\ i # j
       /\ GensOf(j - 1) # {}
       /\ frequencies[i] # frequencies[j]
       /\ \E g \in GensOf(i - 1), h \in GensOf(i - 1) :
            latestSpeeds[g + 1] # latestSpeeds[h + 1]

\* C10: an island with at least one mapped generator, all of them at speed
\* 0, has frequency exactly 50.
C10_ZeroSpeedsGiveFifty ==
  pc = "exported" =>
    \A i \in DOMAIN islands :
      (GensOf(i - 1) # {} /\ \A g \in GensOf(i - 1) : latestSpeeds[g + 1] = 0)
      => frequencies[i] = <<50, 1>>

\* C10 witness: an island at speed 0 beside one at another speed
C10_Witness ==
  /\ pc = "exported"
  /\ \E i \in DOMAIN islands :
       /\ Cardinality(GensOf(i - 1)) >= 2
       /\ \A g \in GensOf(i - 1) : latestSpeeds[g + 1] = 0
  /\ \E g \in 1..Len(latestSpeeds) : latestSpeeds[g] # 0

\* C11: an island with no mapped generator gets NaN as its frequency, every
\* other island of the same call still gets 50 * (1 + mean speed), and the
\* call produces one value per island (it does not fail).
C11_NoGeneratorGivesNaN ==
  pc = "exported" =>
    /\ DOMAIN frequencies = DOMAIN islands
    /\ \A i \in DOMAIN islands :
         IF GensOf(i - 1) = {}
         THEN frequencies[i] = NaN
         ELSE /\ frequencies[i] # NaN
              /\ frequencies[i] =
                   jsMul(Num(50),
                         jsAdd(Num(1), Rat(SpeedSum(GensOf(i - 1)),
                                           Cardinality(GensOf(i - 1)))))

\* C11 witness: an island without generators listed before an island whose
\* generators give a frequency other than 50
C11_Witness ==
  /\ pc = "exported"
  /\ \E i \in DOMAIN islands, j \in DOMAIN islands :
       /\ i < j
       /\ GensOf(i - 1) = {}
       /\ frequencies[i] = NaN
       /\ GensOf(j - 1) # {}
       /\ frequencies[j] \notin {NaN, <<50, 1>>}

\* ------------------------------------------- vocabulary of flow direction
\* injection of the node with index i in the sample; 0 where the sample has
\* none
Injection(i) ==
  IF busPower.isArray /\ (i + 1) \in DOMAIN busPower.items
       /\ "p" \in DOMAIN busPower.items[i + 1]
  THEN busPower.items[i + 1].p
  ELSE <<0, 1>>

\* |p| < 1e-4
Neutral(p) == Abs(p[1]) * 10000 < p[2]

Less(p, r) == p[1] * r[2] < r[1] * p[2]

\* -1, 0 or +1 as p is below, at or above r
Compare(p, r) == IF Less(p, r) THEN -1 ELSE IF Less(r, p) THEN 1 ELSE 0

\* a call that has a sample and two nodes to work on
Asked ==
  /\ pc = "answered"
  /\ busPower.isArray
  /\ fromIdx # -1
  /\ toIdx # -1

\* ------------------------------------------------------ claims C12 - C20
\* C12: direction is antisymmetric: asking the pair the other way round,
\* with the same sample and outage list, gives the negated answer.
C12_Antisymmetric ==
  pc = "answered" =>
    /\ direction = -getLineFlowDirectionSimple(networkData, busPower, toIdx, fromIdx,
                                               outagedLineIds)
    /\ directionBus8 = -getLineFlowDirectionSimpleBus8(networkData, busPower, toIdx, fromIdx)

\* C12 witness: both copies answer a pair of different nodes with a
\* direction other than 0 under a non-empty outage list
C12_Witness ==
  /\ Asked
  /\ fromIdx # toIdx
  /\ outagedLineIds # << >>
  /\ direction # 0
  /\ directionBus8 # 0
  /\ Neutral(Injection(fromIdx)) \/ Neutral(Injection(toIdx))

\* C13: when the two endpoint injections are equal and not neutral, the
\* direction is 0, whatever the other injections and the outage list.
C13_TieGivesZero ==
  (/\ Asked
   /\ Injection(fromIdx) = Injection(toIdx)
   /\ ~Neutral(Injection(fromIdx)))
  => direction = 0 /\ directionBus8 = 0

\* C14: when neither endpoint injection is neutral, the direction is the
\* comparison of the two endpoint injections alone: -1 if p_from < p_to, +1
\* if p_to < p_from, 0 if equal.
C14_EndpointsDecide ==
  (/\ Asked
   /\ ~Neutral(Injection(fromIdx))
   /\ ~Neutral(Injection(toIdx)))
  => /\ direction = Compare(Injection(fromIdx), Injection(toIdx))
     /\ directionBus8 = Compare(Injection(fromIdx), Injection(toIdx))

\* buses i, i+1, i+2 of the K2a backbone B5 - B6 - ... - B11 form the chain
\* of the scenario: positive injection, neutral injection, negative
\* injection, and every other node neutral
ChainCase(i) ==
  /\ networkData = initialNetworkData
  /\ outagedLineIds = << >>
  /\ i \in 4..8
  /\ ~Neutral(Injection(i)) /\ Less(<<0, 1>>, Injection(i))
  /\ Neutral(Injection(i + 1))
  /\ ~Neutral(Injection(i + 2)) /\ Less(Injection(i + 2), <<0, 1>>)
  /\ \A j \in 0..(Len(networkData.nodes) - 1) :
       j \notin {i, i + 1, i + 2} => Neutral(Injection(j))

\* C15: on a chain a - b - c without outages, a with a positive injection, b
\* neutral and c with a negative injection, direction(a, b) and
\* direction(b, c) are both +1.
C15_ChainFlowsTowardSink ==
  Asked =>
    \A i \in 4..8 :
      (ChainCase(i) /\ <<fromIdx, toIdx>> \in {<<i, i + 1>>, <<i + 1, i + 2>>})
      => direction = 1 /\ directionBus8 = 1

\* C15 witness: the scenario B5 = +100, B6 about 0, B7 = -100, asked for
\* B5 -> B6
C15_Witness ==
  /\ Asked
  /\ ChainCase(4)
  /\ Injection(4) = <<100, 1>>
  /\ Injection(5) # <<0, 1>>
  /\ Injection(6) = <<-100, 1>>
  /\ <<fromIdx, toIdx>> = <<4, 5>>
  /\ direction = 1
  /\ directionBus8 = 1

\* Line/Transformer edges that the outage list of the call leaves in service
FlowEdges ==
  {k \in DOMAIN networkData.links :
     /\ networkData.links[k].type \in {"line", "transformer"}
     /\ networkData.links[k].id \notin Range(outagedLineIds)}

\* index of the node with the given id (0-based)
IndexOf(id) == (CHOOSE k \in DOMAIN networkData.nodes : networkData.nodes[k].id = id) - 1

\* indices of the nodes joined to start by paths of FlowEdges that do not
\* pass through excl; nothing when start is excl
Side(start, excl) ==
  LET ends == {<<IndexOf(networkData.links[k].source), IndexOf(networkData.links[k].target)>> :
                 k \in FlowEdges}
      R[n \in 0..Len(networkData.nodes)] ==
        IF n = 0 THEN {start} \ {excl}
        ELSE UNION {(prev \cup {e[2] : e \in {f \in ends : f[1] \in prev}}
                          \cup {e[1] : e \in {f \in ends : f[2] \in prev}}) \ {excl} :
                    prev \in {R[n - 1]}}
  IN R[Len(networkData.nodes)]

\* the nodes of a set with a non-neutral injection, and the smallest of their
\* injections
NonNeutralIn(S) == {i \in S : ~Neutral(Injection(i))}

MinInjection(S) ==
  Injection(CHOOSE i \in S : \A j \in S : ~Less(Injection(j), Injection(i)))

\* C16: with a neutral endpoint and a non-neutral injection on both sides,
\* the direction is -1 if the smallest non-neutral injection of the fromBus
\* side is below that of the toBus side, +1 if above, 0 if they are equal.
C16_BothSidesCompareMinima ==
  (/\ Asked
   /\ Neutral(Injection(fromIdx)) \/ Neutral(Injection(toIdx))
   /\ NonNeutralIn(Side(fromIdx, toIdx)) # {}
   /\ NonNeutralIn(Side(toIdx, fromIdx)) # {})
  => /\ direction = Compare(MinInjection(NonNeutralIn(Side(fromIdx, toIdx))),
                            MinInjection(NonNeutralIn(Side(toIdx, fromIdx))))
     /\ directionBus8 = Compare(MinInjection(NonNeutralIn(Side(fromIdx, toIdx))),
                                MinInjection(NonNeutralIn(Side(toIdx, fromIdx))))

\* C17: with a neutral endpoint and a non-neutral injection (of either
\* sign) on exactly one side, the direction is -1 if it is the fromBus side
\* and +1 if it is the toBus side.
C17_OneSideDecides ==
  (/\ Asked
   /\ Neutral(Injection(fromIdx)) \/ Neutral(Injection(toIdx))
   /\ (NonNeutralIn(Side(fromIdx, toIdx)) = {}) # (NonNeutralIn(Side(toIdx, fromIdx)) = {}))
  => /\ direction = (IF NonNeutralIn(Side(fromIdx, toIdx)) # {} THEN -1 ELSE 1)
     /\ directionBus8 = (IF NonNeutralIn(Side(fromIdx, toIdx)) # {} THEN -1 ELSE 1)

\* indices of the nodes joined to i by paths of FlowEdges
Joined(i) ==
  LET ends == {<<IndexOf(networkData.links[k].source), IndexOf(networkData.links[k].target)>> :
                 k \in FlowEdges}
      R[n \in 0..Len(networkData.nodes)] ==
        IF n = 0 THEN {i}
        ELSE UNION {prev \cup {e[2] : e \in {f \in ends : f[1] \in prev}}
                         \cup {e[1] : e \in {f \in ends : f[2] \in prev}} :
                    prev \in {R[n - 1]}}
  IN R[Len(networkData.nodes)]

\* C18: the direction is 0 when no node joined to either endpoint by
\* in-service Line/Transformer edges has a non-neutral injection; so it is 0
\* for every pair and outage list when every injection is neutral, and when
\* there is no sample or an endpoint was not found.
C18_NoSignalGivesZero ==
  pc = "answered" =>
    /\ (Asked /\ NonNeutralIn(Joined(fromIdx) \cup Joined(toIdx)) = {})
       => direction = 0
    /\ ~Asked => direction = 0

\* C18 witness: a non-neutral injection exists but an outage keeps it from
\* both endpoints, which are different buses, and the answer is 0
C18_Witness ==
  /\ Asked
  /\ fromIdx # toIdx
  /\ NonNeutralIn(Joined(fromIdx) \cup Joined(toIdx)) = {}
  /\ \E i \in 0..(Len(networkData.nodes) - 1) :
       ~Neutral(Injection(i)) /\ Less(Injection(i), <<0, 1>>)
  /\ \E i \in Joined(fromIdx) \cup Joined(toIdx) : Injection(i) # <<0, 1>>
  /\ outagedLineIds # << >>
  /\ direction = 0

\* C19: the search rooted at one endpoint examines exactly the nodes joined
\* to it by Line/Transformer edges outside the outage list along paths that
\* avoid the other endpoint: no outaged edge is crossed, no generator, load
\* or shunt connection is followed, the other endpoint is never examined.
C19_SearchStaysOnItsSide ==
  Asked =>
    /\ sinkSearch(networkData, busPower, outagedLineIds, fromIdx, toIdx).visited \ {toIdx}
         = Side(fromIdx, toIdx)
    /\ sinkSearch(networkData, busPower, outagedLineIds, toIdx, fromIdx).visited \ {fromIdx}
         = Side(toIdx, fromIdx)
    /\ usesSearchBus8(networkData, busPower, fromIdx, toIdx)
       => /\ sinkSearchBus8(networkData, busPower, fromIdx, toIdx).visited \ {toIdx}
               = Side(fromIdx, toIdx)
          /\ sinkSearchBus8(networkData, busPower, toIdx, fromIdx).visited \ {fromIdx}
               = Side(toIdx, fromIdx)

\* the sample with an item { p: 0 } put wherever a node has none
Completed ==
  [isArray |-> TRUE,
   items |-> [i \in 1..Len(networkData.nodes) |-> [p |-> Injection(i - 1)]]]

\* nodes for which the sample has no p
Missing ==
  {i \in 0..(Len(networkData.nodes) - 1) :
     ~((i + 1) \in DOMAIN busPower.items /\ "p" \in DOMAIN busPower.items[i + 1])}

\* C20: a node without an entry in the sample (shorter array, item without
\* p) counts as p = 0: the answer is the answer for the sample completed
\* with neutral entries, and every call has an answer.
C20_MissingReadsAsZero ==
  Asked =>
    /\ direction \in {-1, 0, 1}
    /\ direction = getLineFlowDirectionSimple(networkData, Completed, fromIdx, toIdx,
                                              outagedLineIds)
    /\ directionBus8 = getLineFlowDirectionSimpleBus8(networkData, Completed, fromIdx, toIdx)

\* C20 witness: the array is shorter than the bus list and holds an item
\* without p, an endpoint is among the nodes without p, and the answer is
\* not 0
C20_Witness ==
  /\ Asked
  /\ Len(busPower.items) < busCount(networkData)
  /\ \E i \in DOMAIN busPower.items : "p" \notin DOMAIN busPower.items[i]
  /\ {fromIdx, toIdx} \cap Missing # {}
  /\ \E i \in Missing : startsWithB(networkData.nodes[i + 1].id)
                          /\ i \in Side(fromIdx, toIdx) \cup Side(toIdx, fromIdx)
  /\ direction # 0
  /\ directionBus8 # 0

\* ------------------------------------------------------ claims C21 - C30
\* what a finished search reports against the nodes it examined: found
\* exactly when one of them has a non-neutral injection, and then the
\* smallest of their non-neutral injections as minimum
ReportsExamined(m, excl) ==
  /\ m.foundNonNeutral = (NonNeutralIn(m.visited \ {excl}) # {})
  /\ m.foundNonNeutral => m.minP = MinInjection(NonNeutralIn(m.visited \ {excl}))

\* C21: each search reports found as soon as an examined node has a
\* non-neutral injection of either sign, and its minimum is the smallest
\* injection among the examined non-neutral nodes.
C21_FoundForEitherSign ==
  Asked =>
    /\ ReportsExamined(sinkSearch(networkData, busPower, outagedLineIds, fromIdx, toIdx), toIdx)
    /\ ReportsExamined(sinkSearch(networkData, busPower, outagedLineIds, toIdx, fromIdx), fromIdx)
    /\ ReportsExamined(sinkSearchBus8(networkData, busPower, fromIdx, toIdx), toIdx)
    /\ ReportsExamined(sinkSearchBus8(networkData, busPower, toIdx, fromIdx), fromIdx)

\* position in the node list of the earliest-listed bus of an island
FirstBus(island) ==
  Min({k \in DOMAIN networkData.nodes :
         /\ startsWithB(networkData.nodes[k].id)
         /\ networkData.nodes[k].id \in Range(island)})

\* C22: the islands are returned in the order in which their first bus
\* appears in the node list: island i comes before island j exactly when the
\* earliest-listed bus of island i precedes the earliest-listed bus of
\* island j.
C22_IslandsInNodeListOrder ==
  pc = "exported" =>
    \A i \in DOMAIN islands :
      \A j \in DOMAIN islands :
        /\ Range(islands[i]) \cap BusIds # {}
        /\ (i < j) <=> (FirstBus(islands[i]) < FirstBus(islands[j]))

\* C22 witness: three islands on a network whose buses are not listed in
\* numeric order, the first island rooted at a bus with a higher number than
\* a bus of a later island
C22_Witness ==
  /\ pc = "exported"
  /\ Len(islands) >= 3
  /\ \E a \in Range(islands[1]) \cap BusIds, b \in Range(islands[2]) \cap BusIds : a[2] > b[2]

\* ids of the nodes of the network
NodeIds == Range(nodeIds(networkData.nodes))

\* the edges with an end that is no node of the network
DanglingEdges ==
  {k \in DOMAIN networkData.links :
     ~({networkData.links[k].source, networkData.links[k].target} \subseteq NodeIds)}

\* the same network without the edges at the positions in ks
WithoutEdges(ks) ==
  [networkData EXCEPT !.links = SelectAt(@, DOMAIN @ \ ks)]

\* C23: an edge with an end that matches no node is skipped: the islands
\* returned are those of the same network without that edge, and no island
\* holds an id that is not a node of the network.
C23_DanglingEdgeSkipped ==
  (islands # << >> /\ DanglingEdges # {})
  => /\ islands = detectIslands(WithoutEdges(DanglingEdges), lineOutage)
     /\ \A i \in DOMAIN islands : Range(islands[i]) \subseteq NodeIds

EntersDfs ==
  /\ pc = "dfs"
  /\ pc' = "dfs"
  /\ Len(traversal'.m.stack) > Len(traversal.m.stack)

\* a step of a search that examines the node at the head of its queue
\* rather than dropping it
Examines ==
  /\ pc \in {"searchFrom", "searchTo"}
  /\ pc' = pc
  /\ \/ traversal'.m.visited # traversal.m.visited
     \/ traversal'.m.queue # Tail(traversal.m.queue)
     \/ traversal'.m.minP # traversal.m.minP

\* C25: detectIslands and the two searches of a flow-direction call come
\* to an end on every network, with cycles and parallel branches too, and no
\* traversal expands a node that it has expanded before.
C25_TraversalsTerminate ==
  /\ <>(pc = "done")
  /\ [][/\ EntersDfs
           => traversal'.m.stack[Len(traversal'.m.stack)].nodeId \notin traversal.m.visited
        /\ Examines => Head(traversal.m.queue).idx \notin traversal.m.visited]_vars

\* C25 witness: both searches have returned on a network with a cycle and a
\* pair of parallel lines, after detectIslands returned one island that
\* holds the whole cycle
C25_Witness ==
  /\ pc = "done"
  /\ networkData = smallNetwork(1..Len(smallBranches))
  /\ busPower.isArray
  /\ direction # 0
  /\ Len(islands) = 1
  /\ OutageSet = {}

\* ids of the edges that join the two endpoints of the call directly
DirectIds ==
  {networkData.links[k].id :
     k \in {j \in DOMAIN networkData.links :
              /\ networkData.links[j].id # undefined
              /\ {networkData.links[j].source, networkData.links[j].target}
                   = {networkData.nodes[fromIdx + 1].id, networkData.nodes[toIdx + 1].id}}}

\* C26: the direction does not depend on whether edges that join fromBus
\* and toBus directly are in the outage list: with such an edge added to the
\* list or removed from it, the answer is the same.
C26_DirectEdgesDoNotMatter ==
  Asked =>
    \A S \in FlowOutageLists(networkData) :
      Range(S) \ DirectIds = Range(outagedLineIds) \ DirectIds
      => direction = getLineFlowDirectionSimple(networkData, busPower, fromIdx, toIdx, S)

\* C26 witness: the only edge between the two buses asked about is in the
\* outage list, another outage is in force as well, and the answer is not 0
C26_Witness ==
  /\ Asked
  /\ Cardinality(DirectIds) = 1
  /\ DirectIds \subseteq Range(outagedLineIds)
  /\ Range(outagedLineIds) \ DirectIds # {}
  /\ direction # 0

\* ids of the branches that detectIslands leaves out under the configuration
IslandOutageIds ==
  {networkData.links[k].id :
     k \in {j \in Branches : isOutaged(lineOutage, networkData.links[j])}}

\* C27: under every outage configuration the edge ids that detectIslands
\* treats as out of service are the edge ids handed to the flow-direction
\* search as outaged; with the enabled flag off, both are empty.
C27_SameOutageSet ==
  pc = "frequencies" =>
    /\ IslandOutageIds = Range(outagedLineIds)
    /\ ~lineOutage.enabled => IslandOutageIds = {} /\ Range(outagedLineIds) = {}

\* the same network with every generator connection stored as
\* (generator, bus)
GeneratorFirst ==
  [networkData EXCEPT
     !.links = [k \in DOMAIN @ |->
                  IF @[k].type = "generator_connection" /\ @[k].source[1] = "B"
                  THEN [@[k] EXCEPT !.source = networkData.links[k].target,
                                    !.target = networkData.links[k].source]
                  ELSE @[k]]]

\* C28: the generator mapping does not depend on the orientation in which a
\* generator connection is stored: an edge recorded as (bus, generator)
\* gives the entry of the same edge recorded as (generator, bus).
C28_OrientationDoesNotMatter ==
  pc \in {"direction", "frequencies"} =>
    genMapping = mapGeneratorsToIslands(islands, GeneratorFirst)

\* C29: after any sequence of step messages, in any order and with
\* repetitions, the accumulated times are in ascending order without a
\* duplicate, and a step whose time is already there changes nothing in the
\* accumulated results.
C29_TimesAscendingNoDuplicate ==
  /\ [](pc = "streaming" =>
          \A i \in DOMAIN results.t.items :
            \A j \in DOMAIN results.t.items :
              i < j => results.t.items[i] < results.t.items[j])
  /\ [][(pc = "streaming" /\ delivered' = delivered) => results' = results]_vars

\* C29 witness: steps arrived out of time order, the latest first, and every
\* time is in the accumulated array
C29_Witness ==
  /\ pc = "streaming"
  /\ Len(delivered) = MaxTime
  /\ delivered[1].t = MaxTime
  /\ delivered[2].t < delivered[3].t
  /\ Len(results.t.items) = MaxTime
  /\ results.gen_speed.items # << >>

\* keys other than t for which some delivered step carried a value
CarriedKeys ==
  {key \in Range(stepKeys) \ {"t"} :
     \E k \in DOMAIN delivered : key \in DOMAIN delivered[k] /\ delivered[k][key] # null}

\* what the delivered step with time T carried for a key; nothing when it
\* left the key out or carried null
DeliveredAt(T, key) ==
  LET data == delivered[CHOOSE k \in DOMAIN delivered : delivered[k].t = T]
  IN IF key \in DOMAIN data /\ data[key] # null THEN data[key] ELSE emptySlot

\* entry k of an array; nothing past its end
EntryAt(items, k) == IF k \in DOMAIN items THEN items[k] ELSE emptySlot

\* C30: every accumulated series stays aligned with the time array: for
\* every key the steps carried and every index k, entry k of the series is
\* what the step with time results.t[k] delivered for that key, also when
\* steps arrive out of order, leave a key out or carry null for it, and for
\* keys that did not start as empty arrays.
C30_SeriesAlignedWithTimes ==
  pc = "streaming" =>
    \A key \in CarriedKeys :
      /\ key \in DOMAIN results
      /\ results[key].isArray
      /\ \A k \in DOMAIN results.t.items :
           EntryAt(results[key].items, k) = DeliveredAt(results.t.items[k], key)

====
